---- MODULE Spec2Model ----
(***************************************************************************)
(* Model of bitaxe_monitor.py: the per-device monitoring loop              *)
(* monitor_bitaxe (poll -> detect stall -> restart -> notify -> wait).     *)
(* One step of the model is the code between two blocking calls of the     *)
(* loop: the status GET, a webhook POST, the restart POST, one second of   *)
(* the countdown.  The answers of the device and of the webhook are the    *)
(* inputs, drawn from small sets.                                          *)
(***************************************************************************)
EXTENDS Integers, Sequences, FiniteSets, TLC

(***************************************************************************)
(* Bounds of the model.                                                    *)
(***************************************************************************)
MaxPolls == 4
BaseShares == 100
ShortInterval == 2
LongInterval == 11

(***************************************************************************)
(* Constants of the program.                                               *)
(***************************************************************************)
RecoveryWait == 10
RestartWait == 60
HttpOk == 200
HttpErrorFrom == 400

(***************************************************************************)
(* Values.                                                                 *)
(***************************************************************************)
\* Python's None for prev_shares; an integer n is held as Some(n).
None == <<>>
Some(n) == <<n>>

ShareValues == {0, BaseShares, BaseShares + 1}
Intervals == {ShortInterval, LongInterval}
\* discord_url: "" stands for the falsy values (None, ""), anything else is a URL.
DiscordUrls == {"", "https://discord/hook"}

\* A JSON object is a function from its keys to values.
EmptyDict == [k \in {} |-> 0]
Dicts == {EmptyDict} \cup {[k \in {"sharesAccepted"} |-> v] : v \in ShareValues}

\* Answers to the status GET: a network error, or an HTTP response whose body
\* is a JSON object, some other JSON value, or not JSON at all.
GetStatuses == {200, 503}
GetResponses ==
    {[kind |-> "error", status |-> 0, json |-> "invalid", data |-> EmptyDict]}
    \cup {[kind |-> "http", status |-> s, json |-> "invalid", data |-> EmptyDict] :
              s \in GetStatuses}
    \cup {[kind |-> "http", status |-> 200, json |-> "other", data |-> EmptyDict]}
    \cup {[kind |-> "http", status |-> 200, json |-> "object", data |-> d] : d \in Dicts}

\* Answers to the restart POST.
RestartStatuses == {200, 202, 500}
RestartResponses ==
    {[kind |-> "error", status |-> 0]}
    \cup {[kind |-> "http", status |-> s] : s \in RestartStatuses}

VARIABLES
    pc,                 \* position of the loop
    interval,           \* parameter interval
    discord_url,        \* parameter discord_url
    prev_shares,        \* local prev_shares
    restart_count,      \* local restart_count
    wait_after_restart, \* local wait_after_restart
    shares,             \* local shares (0 while unbound)
    seconds,            \* argument of the running countdown_timer call
    remaining,          \* seconds the countdown still sleeps
    out,                \* what this cycle logged, posted and printed, in order
    hist,               \* what the status polls returned so far
    restart_posts,      \* restart POSTs issued so far
    restart_200,        \* restart POSTs answered with 200 so far
    hook_posts          \* webhook POSTs made so far

vars == <<pc, interval, discord_url, prev_shares, restart_count, wait_after_restart,
          shares, seconds, remaining, out, hist, restart_posts, restart_200, hook_posts>>

(***************************************************************************)
(* log_output: one call, on a line of bounded length.                      *)
(***************************************************************************)
MaxLineLen == 4

\* The characters a line is made of: ESC, the bytes of ANSI sequences and text.
Chars == {"ESC", "[", "0", ";", "m", "J", "x"}
Lines == UNION {[1..n -> Chars] : n \in 0..MaxLineLen}
\* logfile of a log_output call: <<>> for None, else the path.
LogTargets == {<<>>, <<"monitor.log">>}

VARIABLES
    lo_pc,              \* "call" before log_output runs, "done" after it
    line,               \* argument line
    lo_logfile,         \* argument logfile
    console,            \* what print wrote
    file_lines          \* what was appended to the file

ansiVars == <<lo_pc, line, lo_logfile, console, file_lines>>

(***************************************************************************)
(* run_from_config: one thread per device, each running monitor_bitaxe.    *)
(* The loop variables above are the locals of the thread that is running;  *)
(* the locals of the threads that are not are kept in saved.               *)
(***************************************************************************)
MaxMultiPolls == 3

\* The ip values of the device sections.
Devices == {"10.0.0.1", "10.0.0.2"}

VARIABLES
    saved,              \* device that does not run -> the locals of its thread
    cur                 \* the device whose thread runs

multiVars == <<saved, cur>>

(***************************************************************************)
(* The log file of a device loop: resolve_logfile, the start-up upkeep     *)
(* (compress_yesterdays_log, delete_old_logs) and the lines the loop       *)
(* appends while the days pass.  Text is a sequence of tokens, "-" and "." *)
(* being tokens of their own; a day is its number in October 2026.         *)
(***************************************************************************)
MaxLogPolls == 3
MaxDaysRun == 2
StartDay == 20
OldAge == 10
RecentAge == 3

\* max_days of run_from_config's default.
RetentionDays == 7

\* %d of the days of the month.
DD == <<"01", "02", "03", "04", "05", "06", "07", "08", "09", "10",
        "11", "12", "13", "14", "15", "16", "17", "18", "19", "20",
        "21", "22", "23", "24", "25", "26", "27", "28", "29", "30", "31">>

\* The device of the loop and the host names it may report.
LogIp == <<"10", ".", "0", ".", "0", ".", "1">>
NotAvailable == <<"N/A">>
HostNames == {<<"axe1">>}

\* log_arg: a path ./leaf, written with or without a trailing slash; leaf ""
\* stands for no log_arg.
NoLogArg == [parent |-> "", leaf |-> "", slash |-> FALSE]
LogArgs ==
    {NoLogArg} \cup
    {[parent |-> ".", leaf |-> l, slash |-> b] : l \in {"logs", "unknown"}, b \in BOOLEAN}

\* logfile None.
NoFile == [dir |-> <<>>, base |-> <<>>]

\* The bodies of a status poll: with or without hostname and sharesAccepted.
LogDicts ==
    {[k \in ks |-> IF k = "hostname" THEN h ELSE BaseShares] :
        ks \in SUBSET {"hostname", "sharesAccepted"}, h \in HostNames}

\* What a status poll gives the log: a failure, or a body.
LogPolls ==
    {[ok |-> FALSE, data |-> EmptyDict]} \cup {[ok |-> TRUE, data |-> d] : d \in LogDicts}

VARIABLES
    lg_pc,              \* "start" before the loop, "loop" at its top, "restart"
                        \* between the stall line and the restart's result line
    log_arg,            \* parameter log_arg
    max_days,           \* parameter max_days (0 for None)
    today,              \* the day datetime.now() is in
    dirs,               \* the directories that exist
    files,              \* the files that exist
    found,              \* the files that existed when monitor_bitaxe was called
    host_for_logs,      \* local host_for_logs
    logfile,            \* local logfile
    reported,           \* the hostname the last successful poll reported, if any
    appended,           \* the lines appended: file, day of writing, hostname known
    lg_polls,           \* status polls made
    lg_prev_shares      \* local prev_shares of the loop that logs

logVars == <<lg_pc, log_arg, max_days, today, dirs, files, found, host_for_logs, logfile,
             reported, appended, lg_polls, lg_prev_shares>>

(***************************************************************************)
(* run_from_config: the sections of the config file and the threads.       *)
(***************************************************************************)
MaxSections == 3

\* The addresses a section may give, and the section names.
ConfigIps == {LogIp, <<"10", ".", "0", ".", "0", ".", "2">>}
SectionNames ==
    {<<"bitaxe:", "a">>, <<"bitaxe:", "b">>, <<"bitaxe:", "c">>, <<"miner:", "a">>}

\* The options of a section: no ip, an empty ip, an address.
NoOptions == [k \in {} |-> <<>>]
SectionOptions == {NoOptions} \cup {[k \in {"ip"} |-> v] : v \in {<<>>} \cup ConfigIps}
Sections == [name : SectionNames, opts : SectionOptions]

\* log_dir: the default "./logs", or the directory written with a slash, or "".
LogDirs == {NoLogArg} \cup {[parent |-> ".", leaf |-> "logs", slash |-> b] : b \in BOOLEAN}

VARIABLES
    cf_pc,              \* where run_from_config is
    config,             \* config.sections() with their options, in file order
    log_dir,            \* local log_dir
    discord,            \* local discord
    section_i,          \* the section the running for loop is at
    summaries,          \* local summaries: the ip each summary is of
    startup_posts,      \* startup alerts sent
    loops,              \* the threads started: ip, position, logfile
    cf_dirs             \* the directories that exist

configVars == <<cf_pc, config, log_dir, discord, section_i, summaries, startup_posts,
                loops, cf_dirs>>

\* Everything that is not a local of the monitoring loop.
otherVars == <<ansiVars, multiVars, logVars, configVars>>

(***************************************************************************)
(* Pure parts of the code.                                                 *)
(***************************************************************************)
\* dict.get(key, default)
DictGet(d, k, default) == IF k \in DOMAIN d THEN d[k] ELSE default

\* Mutant: the webhook is used whether configured or not.
Truthy_always(url) == TRUE

\* `if discord_url:`
Truthy(url) == url # ""

\* requests.get / raise_for_status / response.json / data.get: what the try
\* block's first lines raise.  response.json() raises requests' JSONDecodeError,
\* a RequestException; data.get on a JSON value that is no object raises
\* AttributeError.
GetOutcome(resp) ==
    IF resp.kind = "error" THEN "RequestException"
    ELSE IF resp.status >= HttpErrorFrom THEN "RequestException"
    ELSE IF resp.json = "invalid" THEN "RequestException"
    ELSE IF resp.json = "other" THEN "AttributeError"
    ELSE "ok"

\* shares = data.get("sharesAccepted", 0)
SharesOf(data) == DictGet(data, "sharesAccepted", 0)

\* Mutant: the share count starts at 0 instead of None.
InitPrevShares_zero == Some(0)

\* prev_shares = None
InitPrevShares == None

\* Mutant: a stall only when the count went down.
IsStall_lt(prev, sh) == prev # None /\ sh < prev[1]

\* Mutant: a stall whenever the count did not go up.
IsStall_le(prev, sh) == prev # None /\ sh <= prev[1]

\* `if prev_shares is not None: if shares == prev_shares:`
IsStall(prev, sh) == prev # None /\ sh = prev[1]

\* Mutant: every 2xx answer counts as a restart.
NextRestartCount_any2xx(rc, r) ==
    IF r.kind = "http" /\ r.status < 300 THEN rc + 1 ELSE rc

\* `if restart_resp.status_code == 200: restart_count += 1`
NextRestartCount(rc, r) ==
    IF r.kind = "http" /\ r.status = HttpOk THEN rc + 1 ELSE rc

\* The branch of the restart try block a position after it belongs to.
BranchAt(p) ==
    CASE p = "alert_restart_ok" -> "ok"
      [] p = "alert_restart_failed" -> "failed"
      [] OTHER -> "error"

\* Which branch of the restart try block runs.
RestartBranch(r) ==
    IF r.kind = "error" THEN "error"
    ELSE IF r.status = HttpOk THEN "ok" ELSE "failed"

\* Mutant: send_discord_alert without its try/except.
send_discord_alert_raises(delivered) == [raised |-> ~delivered, printed |-> FALSE]

\* send_discord_alert: the POST is made; a failure is caught and printed.
send_discord_alert(delivered) == [raised |-> FALSE, printed |-> ~delivered]

\* Mutant: the two waits swapped.
CycleWait_swapped(war, ival) == IF war THEN ival ELSE RestartWait

\* countdown_timer(60 if wait_after_restart else interval)
CycleWait(war, ival) == IF war THEN RestartWait ELSE ival

\* Mutant: the except branch waits the configured interval.
UnreachableWait_interval(ival) == ival

\* countdown_timer(10) in the except branch
UnreachableWait(ival) == RecoveryWait

\* Mutant: a stall cycle clears the recorded count, so the next poll starts over.
PrevSharesAfter_graceAfterStall(prev, ok, sh) ==
    IF ok THEN (IF prev = Some(sh) THEN None ELSE Some(sh)) ELSE prev

\* Mutant: a failed poll forgets the recorded count.
PrevSharesAfter_reset(prev, ok, sh) == IF ok THEN Some(sh) ELSE None

\* prev_shares = shares is the last line of the try block.
PrevSharesAfter(prev, ok, sh) == IF ok THEN Some(sh) ELSE prev

(***************************************************************************)
(* The loop.                                                               *)
(***************************************************************************)
Init ==
    /\ pc = "get"
    /\ interval \in Intervals
    /\ discord_url \in DiscordUrls
    /\ prev_shares = InitPrevShares
    /\ restart_count = 0
    /\ wait_after_restart = FALSE
    /\ shares = 0
    /\ seconds = 0
    /\ remaining = 0
    /\ out = <<>>
    /\ hist = <<>>
    /\ restart_posts = 0
    /\ restart_200 = 0
    /\ hook_posts = 0

\* countdown_timer(n) starts: range(n, 0, -1).
StartCountdown(n) ==
    /\ pc' = "sleep"
    /\ seconds' = n
    /\ remaining' = IF n > 0 THEN n ELSE 0

\* The end of the try block and the wait after it.
FinishCycle ==
    /\ prev_shares' = PrevSharesAfter(prev_shares, TRUE, shares')
    /\ StartCountdown(CycleWait(wait_after_restart', interval))

\* Mutant: the except branch goes to its countdown without the webhook call.
Unreachable_noAlert(sofar) ==
    /\ out' = Append(sofar, "log:unreachable")
    /\ prev_shares' = PrevSharesAfter(prev_shares, FALSE, shares')
    /\ StartCountdown(UnreachableWait(interval))

\* The outer except branch up to its webhook call or its countdown.
Unreachable(sofar) ==
    /\ out' = Append(sofar, "log:unreachable")
    /\ prev_shares' = PrevSharesAfter(prev_shares, FALSE, shares')
    /\ IF Truthy(discord_url)
       THEN pc' = "alert_unreachable" /\ UNCHANGED <<seconds, remaining>>
       ELSE StartCountdown(UnreachableWait(interval))

\* What send_discord_alert adds to the cycle's output.
AlertOut(msg, r) ==
    IF r.printed THEN <<msg, "print:alert_failed">> ELSE <<msg>>

\* One iteration from `wait_after_restart = False` to the next blocking call.
Poll(resp) ==
    /\ UNCHANGED otherVars
    /\ pc = "get"
    /\ Len(hist) < MaxPolls
    /\ wait_after_restart' = FALSE
    /\ hist' = Append(hist, [res |-> GetOutcome(resp), shares |-> SharesOf(resp.data)])
    /\ UNCHANGED <<interval, discord_url, restart_count, restart_posts, restart_200,
                   hook_posts>>
    /\ CASE GetOutcome(resp) = "ok" ->
              /\ shares' = SharesOf(resp.data)
              /\ IF IsStall(prev_shares, shares')
                 THEN /\ out' = <<"log:status", "log:stall">>
                      /\ pc' = IF Truthy(discord_url) THEN "alert_stall" ELSE "restart_post"
                      /\ UNCHANGED <<prev_shares, seconds, remaining>>
                 ELSE /\ out' = IF prev_shares # None
                                THEN <<"log:status">>
                                ELSE <<"log:status", "log:initial">>
                      /\ FinishCycle
         [] GetOutcome(resp) = "RequestException" ->
              /\ UNCHANGED shares
              /\ Unreachable(<<>>)
         [] OTHER ->
              /\ pc' = "dead"
              /\ out' = <<"traceback">>
              /\ UNCHANGED <<shares, prev_shares, seconds, remaining>>

\* send_discord_alert(... "had no new shares. Restarting...")
AlertStall(delivered) ==
    /\ UNCHANGED otherVars
    /\ pc = "alert_stall"
    /\ hook_posts' = hook_posts + 1
    /\ UNCHANGED <<interval, discord_url, restart_count, wait_after_restart, shares,
                   hist, restart_posts, restart_200>>
    /\ LET r == send_discord_alert(delivered) IN
       IF r.raised
       THEN Unreachable(out \o AlertOut("hook:stall", r))
       ELSE /\ out' = out \o AlertOut("hook:stall", r)
            /\ pc' = "restart_post"
            /\ UNCHANGED <<prev_shares, seconds, remaining>>

\* requests.post(restart_url) and the log line of its result.
RestartPost(r) ==
    /\ UNCHANGED otherVars
    /\ pc = "restart_post"
    /\ restart_posts' = restart_posts + 1
    /\ restart_200' = restart_200 + (IF r.kind = "http" /\ r.status = 200 THEN 1 ELSE 0)
    /\ restart_count' = NextRestartCount(restart_count, r)
    /\ out' = out \o <<"post:restart", "log:restart_" \o RestartBranch(r)>>
    /\ UNCHANGED <<interval, discord_url, wait_after_restart, shares, hist, hook_posts>>
    /\ IF Truthy(discord_url)
       THEN /\ pc' = "alert_restart_" \o RestartBranch(r)
            /\ UNCHANGED <<prev_shares, seconds, remaining>>
       ELSE FinishCycle

\* send_discord_alert of the restart's result.
AlertResult(delivered) ==
    /\ UNCHANGED otherVars
    /\ pc \in {"alert_restart_ok", "alert_restart_failed", "alert_restart_error"}
    /\ hook_posts' = hook_posts + 1
    /\ UNCHANGED <<interval, discord_url, restart_count, wait_after_restart, shares,
                   hist, restart_posts, restart_200>>
    /\ LET r == send_discord_alert(delivered)
           sofar == out \o AlertOut("hook:restart_" \o BranchAt(pc), r)
       IN
       IF ~r.raised
       THEN out' = sofar /\ FinishCycle
       ELSE IF pc = "alert_restart_error"
       THEN Unreachable(sofar)
       ELSE /\ out' = Append(sofar, "log:restart_error")
            /\ pc' = "alert_restart_error"
            /\ UNCHANGED <<prev_shares, seconds, remaining>>

\* send_discord_alert(... "Could not communicate ...") and countdown_timer(10).
AlertUnreachable(delivered) ==
    /\ UNCHANGED otherVars
    /\ pc = "alert_unreachable"
    /\ hook_posts' = hook_posts + 1
    /\ UNCHANGED <<interval, discord_url, prev_shares, restart_count, wait_after_restart,
                   shares, hist, restart_posts, restart_200>>
    /\ LET r == send_discord_alert(delivered) IN
       /\ out' = out \o AlertOut("hook:unreachable", r)
       /\ IF r.raised
          THEN pc' = "dead" /\ UNCHANGED <<seconds, remaining>>
          ELSE StartCountdown(UnreachableWait(interval))

\* One second of countdown_timer.
Tick ==
    /\ UNCHANGED otherVars
    /\ pc = "sleep"
    /\ remaining > 0
    /\ remaining' = remaining - 1
    /\ UNCHANGED <<pc, interval, discord_url, prev_shares, restart_count,
                   wait_after_restart, shares, seconds, out, hist, restart_posts,
                   restart_200, hook_posts>>

\* countdown_timer returns and the loop starts over.
NextCycle ==
    /\ UNCHANGED otherVars
    /\ pc = "sleep"
    /\ remaining = 0
    /\ pc' = "get"
    /\ UNCHANGED <<interval, discord_url, prev_shares, restart_count,
                   wait_after_restart, shares, seconds, remaining, out, hist,
                   restart_posts, restart_200, hook_posts>>

Next ==
    \/ \E resp \in GetResponses : Poll(resp)
    \/ \E d \in BOOLEAN : AlertStall(d)
    \/ \E r \in RestartResponses : RestartPost(r)
    \/ \E d \in BOOLEAN : AlertResult(d)
    \/ \E d \in BOOLEAN : AlertUnreachable(d)
    \/ Tick
    \/ NextCycle

(***************************************************************************)
(* log_output.                                                             *)
(***************************************************************************)
\* [0-9;]
IsParam(c) == c \in {"0", ";"}

\* Where a match of ansi_escape = \x1b\[[0-9;]*m that starts at i ends, 0 when
\* there is none: ESC, "[", the longest run of [0-9;], then "m".
RECURSIVE ParamsEnd(_, _)
ParamsEnd(s, j) == IF j <= Len(s) /\ IsParam(s[j]) THEN ParamsEnd(s, j + 1) ELSE j

MatchEnd(s, i) ==
    IF i + 1 <= Len(s) /\ s[i] = "ESC" /\ s[i + 1] = "["
    THEN LET j == ParamsEnd(s, i + 2) IN
         IF j <= Len(s) /\ s[j] = "m" THEN j ELSE 0
    ELSE 0

\* ansi_escape.sub('', line): one pass from the left over the matches.
RECURSIVE SubFrom(_, _)
SubFrom(s, i) ==
    IF i > Len(s) THEN <<>>
    ELSE IF MatchEnd(s, i) > 0 THEN SubFrom(s, MatchEnd(s, i) + 1)
    ELSE <<s[i]>> \o SubFrom(s, i + 1)

AnsiSub(s) == SubFrom(s, 1)

InitLogOutput ==
    /\ lo_pc = "call"
    /\ line \in Lines
    /\ lo_logfile \in LogTargets
    /\ console = <<>>
    /\ file_lines = <<>>

\* log_output(line, logfile)
LogOutput ==
    /\ lo_pc = "call"
    /\ lo_pc' = "done"
    /\ console' = Append(console, line)
    /\ file_lines' = IF lo_logfile # <<>>
                     THEN Append(file_lines, AnsiSub(line))
                     ELSE file_lines
    /\ UNCHANGED <<line, lo_logfile>>
    /\ UNCHANGED <<vars, multiVars, logVars, configVars>>

\* The variables of log_output while the loop is what runs.
LogOutputIdle ==
    /\ lo_pc = "done"
    /\ line = <<>>
    /\ lo_logfile = <<>>
    /\ console = <<>>
    /\ file_lines = <<>>

\* The variables of the loop while something else is what runs.
LoopIdle ==
    /\ pc = "idle"
    /\ interval = 0
    /\ discord_url = ""
    /\ prev_shares = None
    /\ restart_count = 0
    /\ wait_after_restart = FALSE
    /\ shares = 0
    /\ seconds = 0
    /\ remaining = 0
    /\ out = <<>>
    /\ hist = <<>>
    /\ restart_posts = 0
    /\ restart_200 = 0
    /\ hook_posts = 0

(***************************************************************************)
(* Log files.                                                              *)
(***************************************************************************)
\* str.replace(a, b) on tokens
Replace(s, a, b) == [i \in DOMAIN s |-> IF s[i] = a THEN b ELSE s[i]]

\* str.split(sep)[0] and str.split(sep)[-1]
RECURSIVE SplitFirst(_, _)
SplitFirst(s, sep) ==
    IF s = <<>> \/ Head(s) = sep THEN <<>> ELSE <<Head(s)>> \o SplitFirst(Tail(s), sep)

RECURSIVE SplitLast(_, _)
SplitLast(s, sep) ==
    IF \E i \in DOMAIN s : s[i] = sep THEN SplitLast(Tail(s), sep) ELSE s

\* str.startswith(part)
StartsWith(text, part) ==
    Len(text) >= Len(part) /\ SubSeq(text, 1, Len(part)) = part

\* datetime.strftime("%Y-%m-%d")
Strftime(day) == <<"2026", "-", "10", "-", DD[day]>>

\* datetime.strptime(text, "%Y-%m-%d"): the day, 0 for ValueError.
Strptime(text) ==
    IF /\ Len(text) = 5
       /\ text[1] = "2026" /\ text[2] = "-" /\ text[3] = "10" /\ text[4] = "-"
       /\ \E n \in DOMAIN DD : DD[n] = text[5]
    THEN CHOOSE n \in DOMAIN DD : DD[n] = text[5]
    ELSE 0

\* `"unknown" in text`
ContainsUnknown(text) == \E i \in DOMAIN text : text[i] = "unknown"

\* The directory a log_arg names.
DirOf(arg) == <<arg.parent, arg.leaf>>

\* f"{hostname or 'unknown-' + ip.replace('.', '_')}-{today}.log"
LogName(ip, hostname, day) ==
    (IF hostname # <<>> THEN hostname ELSE <<"unknown", "-">> \o Replace(ip, ".", "_"))
    \o <<"-">> \o Strftime(day) \o <<".", "log">>

\* `os.path.isdir(log_arg) or log_arg.endswith('/')`
IsDirArg(arg, ds) == DirOf(arg) \in ds \/ arg.slash

\* resolve_logfile: the path returned.
ResolveLogfile(arg, ip, hostname, ds, day) ==
    IF arg.leaf = "" THEN NoFile
    ELSE IF IsDirArg(arg, ds)
    THEN [dir |-> DirOf(arg), base |-> LogName(ip, hostname, day)]
    ELSE [dir |-> <<arg.parent>>, base |-> <<arg.leaf>>]

\* resolve_logfile: the directories after its os.makedirs.
MakeDirs(arg, ds) ==
    IF arg.leaf = "" THEN ds
    ELSE IF IsDirArg(arg, ds) THEN ds \cup {DirOf(arg)}
    ELSE ds \cup {<<arg.parent>>}

\* compress_yesterdays_log: the files after it.
CompressYesterdaysLog(fs, dir, host, day) ==
    LET log == [dir |-> dir,
                base |-> host \o <<"-">> \o Strftime(day - 1) \o <<".", "log">>]
        gz == [dir |-> dir, base |-> log.base \o <<".", "gz">>]
    IN IF log \in fs /\ gz \notin fs THEN (fs \ {log}) \cup {gz} ELSE fs

\* glob: f"{hostname_or_ip}-*.log*"
GlobMatches(f, dir, host) ==
    /\ f.dir = dir
    /\ Len(f.base) > Len(host) + 1
    /\ SubSeq(f.base, 1, Len(host) + 1) = host \o <<"-">>
    /\ \E i \in (Len(host) + 2)..(Len(f.base) - 1) :
           f.base[i] = "." /\ f.base[i + 1] = "log"

\* date_part = basename.split("-")[-1].split(".")[0]
DatePart(base) == SplitFirst(SplitLast(base, "-"), ".")

\* delete_old_logs: the files after it.  cutoff is now - max_days and
\* file_date the midnight of the parsed day.
DeleteOldLogs(fs, dir, host, days, day) ==
    {f \in fs :
        ~ /\ GlobMatches(f, dir, host)
          /\ Strptime(DatePart(f.base)) # 0
          /\ Strptime(DatePart(f.base)) <= day - days}

\* The files a device left behind on earlier days.
OldFile(dir, age, gz) ==
    [dir |-> dir,
     base |-> Replace(LogIp, ".", "_") \o <<"-">> \o Strftime(StartDay - age)
              \o (IF gz THEN <<".", "log", ".", "gz">> ELSE <<".", "log">>)]
OldFiles(dir) ==
    {OldFile(dir, OldAge, TRUE), OldFile(dir, OldAge, FALSE),
     OldFile(dir, RecentAge, TRUE), OldFile(dir, 1, FALSE)}

InitLog ==
    /\ lg_pc = "start"
    /\ log_arg \in LogArgs
    /\ max_days \in {0, RetentionDays}
    /\ today = StartDay
    /\ dirs \in IF log_arg.leaf = ""
                 THEN {{<<".">>}}
                 ELSE {{<<".">>}, {<<".">>, DirOf(log_arg)}}
    /\ files \in IF DirOf(log_arg) \in dirs THEN SUBSET OldFiles(DirOf(log_arg)) ELSE {{}}
    /\ found = files
    /\ host_for_logs = <<>>
    /\ logfile = NoFile
    /\ reported = <<>>
    /\ appended = {}
    /\ lg_polls = 0
    /\ lg_prev_shares = InitPrevShares

\* monitor_bitaxe before its loop: host_for_logs, logfile, log_dir and the upkeep.
LogStartup ==
    /\ lg_pc = "start"
    /\ lg_pc' = "loop"
    /\ host_for_logs' = Replace(LogIp, ".", "_")
    /\ logfile' = IF log_arg.leaf # ""
                  THEN ResolveLogfile(log_arg, LogIp, host_for_logs', dirs, today)
                  ELSE NoFile
    /\ dirs' = MakeDirs(log_arg, dirs)
    /\ files' =
          IF logfile' # NoFile /\ logfile'.dir \in dirs'
          THEN LET kept == CompressYesterdaysLog(files, logfile'.dir, host_for_logs', today)
               IN IF max_days # 0
                  THEN DeleteOldLogs(kept, logfile'.dir, host_for_logs', max_days, today)
                  ELSE kept
          ELSE files
    /\ UNCHANGED <<log_arg, max_days, today, found, reported, appended, lg_polls,
                   lg_prev_shares>>
    /\ UNCHANGED <<vars, ansiVars, multiVars, configVars>>

\* log_output(line, logfile): the append to the file.
Appended(file, day, known, sofar) ==
    IF file # NoFile
    THEN sofar \cup {[file |-> file, day |-> day, hostname |-> known]}
    ELSE sofar

\* The loop from its top to the first call that blocks after the status
\* poll: the poll, the hostname, the renaming of the log, the status line and
\* the line that follows it at once (initial count, stall), or the error line
\* of a failed poll.  On a stall the loop goes on to the webhook and the
\* restart POST, which block before the result line is written.
PollAndLog(r) ==
    /\ lg_pc = "loop"
    /\ lg_polls < MaxLogPolls
    /\ lg_polls' = lg_polls + 1
    /\ IF r.ok
       THEN LET hostname == DictGet(r.data, "hostname", NotAvailable) IN
            /\ host_for_logs' = IF hostname # NotAvailable THEN hostname ELSE host_for_logs
            /\ reported' = IF hostname # NotAvailable THEN hostname ELSE reported
            /\ logfile' =
                  IF log_arg.leaf # "" /\ logfile # NoFile
                     /\ (ContainsUnknown(logfile.dir) \/ ContainsUnknown(logfile.base))
                  THEN ResolveLogfile(log_arg, LogIp, host_for_logs', dirs, today)
                  ELSE logfile
            /\ dirs' = IF logfile' # logfile THEN MakeDirs(log_arg, dirs) ELSE dirs
            /\ lg_pc' = IF IsStall(lg_prev_shares, SharesOf(r.data))
                         THEN "restart" ELSE "loop"
       ELSE UNCHANGED <<host_for_logs, reported, logfile, dirs, lg_pc>>
    /\ lg_prev_shares' = PrevSharesAfter(lg_prev_shares, r.ok, SharesOf(r.data))
    /\ appended' = Appended(logfile', today, reported', appended)
    /\ files' = IF logfile' # NoFile THEN files \cup {logfile'} ELSE files
    /\ UNCHANGED <<log_arg, max_days, today, found>>
    /\ UNCHANGED <<vars, ansiVars, multiVars, configVars>>

\* The rest of a stall cycle: the restart POST has answered or failed, and
\* its result line (sent, failed, error) is written to logfile.
RestartAndLog ==
    /\ lg_pc = "restart"
    /\ lg_pc' = "loop"
    /\ appended' = Appended(logfile, today, reported, appended)
    /\ files' = IF logfile # NoFile THEN files \cup {logfile} ELSE files
    /\ UNCHANGED <<log_arg, max_days, today, dirs, found, host_for_logs, logfile, reported,
                   lg_polls, lg_prev_shares>>
    /\ UNCHANGED <<vars, ansiVars, multiVars, configVars>>

\* Midnight passes while the loop waits or is blocked in a request.
DayPasses ==
    /\ lg_pc \in {"loop", "restart"}
    /\ today < StartDay + MaxDaysRun
    /\ today' = today + 1
    /\ UNCHANGED <<lg_pc, log_arg, max_days, dirs, files, found, host_for_logs, logfile,
                   reported, appended, lg_polls, lg_prev_shares>>
    /\ UNCHANGED <<vars, ansiVars, multiVars, configVars>>

\* The log while something else is what runs.
LogIdle ==
    /\ lg_pc = "idle"
    /\ log_arg = NoLogArg
    /\ max_days = 0
    /\ today = StartDay
    /\ dirs = {}
    /\ files = {}
    /\ found = {}
    /\ host_for_logs = <<>>
    /\ logfile = NoFile
    /\ reported = <<>>
    /\ appended = {}
    /\ lg_polls = 0
    /\ lg_prev_shares = None

(***************************************************************************)
(* run_from_config.                                                        *)
(***************************************************************************)
\* config[section].get("ip")
IpOf(section) == DictGet(section.opts, "ip", None)

\* Mutant: a section is started whether or not it has an ip.
Startable_anyBitaxe(section) == StartsWith(section.name, <<"bitaxe:">>)

\* `if section.startswith("bitaxe:"):` ... `if ip:`
Startable(section) ==
    StartsWith(section.name, <<"bitaxe:">>) /\ IpOf(section) # None

\* The config files: up to MaxSections sections, no section name twice
\* (configparser refuses a duplicate section).
Configs ==
    {c \in UNION {[1..n -> Sections] : n \in 0..MaxSections} :
        \A i, j \in DOMAIN c : c[i].name = c[j].name => i = j}

InitConfig ==
    /\ cf_pc = "summaries"
    /\ config \in Configs
    /\ log_dir \in LogDirs
    /\ discord \in DiscordUrls
    /\ section_i = 1
    /\ summaries = <<>>
    /\ startup_posts = 0
    /\ loops = <<>>
    /\ cf_dirs \in IF log_dir.leaf = ""
                    THEN {{<<".">>}}
                    ELSE {{<<".">>}, {<<".">>, DirOf(log_dir)}}

\* One iteration of the first `for section in config.sections()`.
Summarise ==
    /\ cf_pc = "summaries"
    /\ section_i <= Len(config)
    /\ summaries' = IF Startable(config[section_i])
                     THEN Append(summaries, IpOf(config[section_i]))
                     ELSE summaries
    /\ section_i' = section_i + 1
    /\ UNCHANGED <<cf_pc, config, log_dir, discord, startup_posts, loops, cf_dirs>>
    /\ UNCHANGED <<vars, ansiVars, multiVars, logVars>>

\* `if discord:` send_discord_alert(discord, startup_msg)
StartupAlert(delivered) ==
    /\ cf_pc = "summaries"
    /\ section_i > Len(config)
    /\ IF Truthy(discord)
       THEN /\ startup_posts' = startup_posts + 1
            /\ cf_pc' = IF send_discord_alert(delivered).raised THEN "aborted" ELSE "threads"
       ELSE /\ delivered
            /\ startup_posts' = startup_posts
            /\ cf_pc' = "threads"
    /\ section_i' = 1
    /\ UNCHANGED <<config, log_dir, discord, summaries, loops, cf_dirs>>
    /\ UNCHANGED <<vars, ansiVars, multiVars, logVars>>

\* One iteration of the second for loop: threading.Thread(...).start()
StartThread ==
    /\ cf_pc = "threads"
    /\ section_i <= Len(config)
    /\ loops' = IF Startable(config[section_i])
                 THEN Append(loops, [ip |-> IpOf(config[section_i]), at |-> "start",
                                     logfile |-> NoFile])
                 ELSE loops
    /\ section_i' = section_i + 1
    /\ UNCHANGED <<cf_pc, config, log_dir, discord, summaries, startup_posts, cf_dirs>>
    /\ UNCHANGED <<vars, ansiVars, multiVars, logVars>>

\* `while True: time.sleep(60)`
Sleep ==
    /\ cf_pc = "threads"
    /\ section_i > Len(config)
    /\ cf_pc' = "sleep"
    /\ UNCHANGED <<config, log_dir, discord, section_i, summaries, startup_posts, loops,
                   cf_dirs>>
    /\ UNCHANGED <<vars, ansiVars, multiVars, logVars>>

\* KeyboardInterrupt: the process ends and its daemon threads with it.
Interrupt ==
    /\ cf_pc = "sleep"
    /\ cf_pc' = "stopped"
    /\ UNCHANGED <<config, log_dir, discord, section_i, summaries, startup_posts, loops,
                   cf_dirs>>
    /\ UNCHANGED <<vars, ansiVars, multiVars, logVars>>

\* Thread k runs monitor_bitaxe up to its loop: host_for_logs and logfile.
ThreadResolves(k) ==
    /\ cf_pc \in {"threads", "sleep"}
    /\ loops[k].at = "start"
    /\ loops' = [loops EXCEPT
                    ![k].at = "loop",
                    ![k].logfile =
                        IF log_dir.leaf # ""
                        THEN ResolveLogfile(log_dir, loops[k].ip,
                                            Replace(loops[k].ip, ".", "_"), cf_dirs,
                                            StartDay)
                        ELSE NoFile]
    /\ cf_dirs' = MakeDirs(log_dir, cf_dirs)
    /\ UNCHANGED <<cf_pc, config, log_dir, discord, section_i, summaries, startup_posts>>
    /\ UNCHANGED <<vars, ansiVars, multiVars, logVars>>

\* run_from_config not called.
ConfigIdle ==
    /\ cf_pc = "idle"
    /\ config = <<>>
    /\ log_dir = NoLogArg
    /\ discord = ""
    /\ section_i = 1
    /\ summaries = <<>>
    /\ startup_posts = 0
    /\ loops = <<>>
    /\ cf_dirs = {}

(***************************************************************************)
(* Threads.                                                                *)
(***************************************************************************)
\* Mutant: prev_shares and restart_count kept at module level.
SharedNames_counters == {"prev_shares", "restart_count"}

\* The names of the loop that are module-level variables, shared by the
\* threads: none, monitor_bitaxe binds all of them as locals.
SharedNames == {}

\* The value a thread finds in a name when it runs again.
Bound(name, global, local) == IF name \in SharedNames THEN global ELSE local

\* The locals of the running thread.
Locals ==
    [pc |-> pc, prev_shares |-> prev_shares, restart_count |-> restart_count,
     wait_after_restart |-> wait_after_restart, shares |-> shares,
     seconds |-> seconds, remaining |-> remaining, out |-> out, hist |-> hist,
     restart_posts |-> restart_posts, restart_200 |-> restart_200,
     hook_posts |-> hook_posts]

\* The locals of a thread that has just been started.
FreshLocals ==
    [pc |-> "get", prev_shares |-> InitPrevShares, restart_count |-> 0,
     wait_after_restart |-> FALSE, shares |-> 0, seconds |-> 0, remaining |-> 0,
     out |-> <<>>, hist |-> <<>>, restart_posts |-> 0, restart_200 |-> 0,
     hook_posts |-> 0]

\* What device d's thread holds, running or not.
View(d) == IF d = cur THEN Locals ELSE saved[d]

RECURSIVE PollsOf(_)
PollsOf(ds) ==
    IF ds = {} THEN 0
    ELSE LET d == CHOOSE x \in ds : TRUE IN Len(View(d).hist) + PollsOf(ds \ {d})

\* threading.Thread(target=monitor_bitaxe, args=(ip, interval, log_dir, max_days,
\* discord)).start() for every device: the threads share the arguments.
InitMulti ==
    /\ Init
    /\ LogOutputIdle
    /\ LogIdle
    /\ ConfigIdle
    /\ cur \in Devices
    /\ saved = [d \in Devices \ {cur} |-> FreshLocals]

\* The scheduler lets the thread of device d run.
Switch(d) ==
    /\ d # cur
    /\ cur' = d
    /\ saved' = [x \in Devices \ {d} |-> IF x = cur THEN Locals ELSE saved[x]]
    /\ pc' = saved[d].pc
    /\ prev_shares' = Bound("prev_shares", prev_shares, saved[d].prev_shares)
    /\ restart_count' = Bound("restart_count", restart_count, saved[d].restart_count)
    /\ wait_after_restart' =
           Bound("wait_after_restart", wait_after_restart, saved[d].wait_after_restart)
    /\ shares' = Bound("shares", shares, saved[d].shares)
    /\ seconds' = saved[d].seconds
    /\ remaining' = saved[d].remaining
    /\ out' = saved[d].out
    /\ hist' = saved[d].hist
    /\ restart_posts' = saved[d].restart_posts
    /\ restart_200' = saved[d].restart_200
    /\ hook_posts' = saved[d].hook_posts
    /\ UNCHANGED <<interval, discord_url, ansiVars, logVars, configVars>>

\* The threads not started.
MultiIdle ==
    /\ saved = <<>>
    /\ cur = ""

allVars == <<vars, otherVars>>

\* monitor_bitaxe on every device, the threads interleaved.
NextMulti ==
    \/ \E d \in Devices : Switch(d)
    \/ PollsOf(Devices) < MaxMultiPolls /\ \E resp \in GetResponses : Poll(resp)
    \/ \E d \in BOOLEAN : AlertStall(d)
    \/ \E r \in RestartResponses : RestartPost(r)
    \/ \E d \in BOOLEAN : AlertResult(d)
    \/ \E d \in BOOLEAN : AlertUnreachable(d)
    \/ Tick
    \/ NextCycle

SpecMulti == InitMulti /\ [][NextMulti]_allVars

\* The log file of one device loop over the days.
InitLogSpec == InitLog /\ LoopIdle /\ LogOutputIdle /\ MultiIdle /\ ConfigIdle
NextLog ==
    \/ LogStartup
    \/ \E r \in LogPolls : PollAndLog(r)
    \/ RestartAndLog
    \/ DayPasses
SpecLog == InitLogSpec /\ [][NextLog]_allVars

\* monitor_bitaxe on one device.
InitSingle == Init /\ LogOutputIdle /\ MultiIdle /\ LogIdle /\ ConfigIdle
Spec == InitSingle /\ [][Next]_allVars

\* log_output on every line.
InitAnsi == InitLogOutput /\ LoopIdle /\ MultiIdle /\ LogIdle /\ ConfigIdle
NextAnsi == LogOutput
SpecAnsi == InitAnsi /\ [][NextAnsi]_allVars

\* run_from_config and the threads it starts.
InitConfigSpec == InitConfig /\ LoopIdle /\ LogOutputIdle /\ MultiIdle /\ LogIdle
NextConfig ==
    \/ Summarise
    \/ \E delivered \in BOOLEAN : StartupAlert(delivered)
    \/ StartThread
    \/ Sleep
    \/ Interrupt
    \/ \E k \in DOMAIN loops : ThreadResolves(k)
SpecConfig == InitConfigSpec /\ [][NextConfig]_allVars

(***************************************************************************)
(* Vocabulary of the properties.                                           *)
(***************************************************************************)
CountIn(seq, x) == Cardinality({i \in DOMAIN seq : seq[i] = x})
OkPolls(h) == SelectSeq(h, LAMBDA e : e.res = "ok")
Polled == hist # <<>>
LastPoll == hist[Len(hist)]
\* The successful polls before the last poll.
PriorOk == OkPolls(SubSeq(hist, 1, Len(hist) - 1))
LastPriorShares == PriorOk[Len(PriorOk)].shares
\* The last poll succeeded and a successful poll came before it.
Compared == Polled /\ LastPoll.res = "ok" /\ PriorOk # <<>>
UnchangedPoll == Compared /\ LastPoll.shares = LastPriorShares
ChangedPoll == Compared /\ LastPoll.shares # LastPriorShares
FirstOkPoll == Polled /\ LastPoll.res = "ok" /\ PriorOk = <<>>
FailedPoll == Polled /\ LastPoll.res = "RequestException"
\* The cycle of the last poll has reached its wait or is past it.
CycleOver == Polled /\ pc \in {"sleep", "get"}
StrictlyIncreasing(h) == \A i \in 1..(Len(h) - 1) : h[i].shares < h[i + 1].shares
\* The cycle's output without the console-only note of a failed webhook.
Visible(o) == SelectSeq(o, LAMBDA e : e # "print:alert_failed")

(***************************************************************************)
(* C1: a successful poll whose share count equals the count of the prior   *)
(* successful poll is followed by exactly one restart POST before the next *)
(* status poll, whatever the restart or the webhook answers; no cycle      *)
(* issues more than one.                                                   *)
(***************************************************************************)
C1_ExactlyOneRestart ==
    /\ CountIn(out, "post:restart") <= 1
    /\ (UnchangedPoll /\ CycleOver) => CountIn(out, "post:restart") = 1

C1_Witness ==
    /\ UnchangedPoll
    /\ pc = "get"
    /\ CountIn(out, "post:restart") = 1
    /\ CountIn(out, "print:alert_failed") = 2
    /\ CountIn(out, "log:restart_error") = 1

(***************************************************************************)
(* C2: a cycle whose polled share count differs from the recorded one      *)
(* issues no restart POST and only replaces the recorded value, also when  *)
(* the count went down; while the successful polls strictly increase no    *)
(* restart is ever issued.                                                 *)
(***************************************************************************)
C2_NoRestartOnChange ==
    /\ ChangedPoll =>
          /\ CycleOver
          /\ Visible(out) = <<"log:status">>
          /\ prev_shares = Some(LastPoll.shares)
    /\ StrictlyIncreasing(OkPolls(hist)) => restart_posts = 0

C2_Witness ==
    /\ ChangedPoll
    /\ LastPoll.shares < LastPriorShares
    /\ restart_count = 1
    /\ prev_shares = Some(0)
    /\ pc = "sleep"

(***************************************************************************)
(* C3: the first successful poll of the loop logs the status line and the  *)
(* initial-share-count line, records the count and nothing else: no stall  *)
(* line, no notification, no restart POST, whatever count it reports and   *)
(* however many failed polls came before.                                  *)
(***************************************************************************)
C3_FirstPollNoStall ==
    FirstOkPoll =>
        /\ CycleOver
        /\ out = <<"log:status", "log:initial">>
        /\ prev_shares = Some(LastPoll.shares)
        /\ restart_posts = 0

C3_Witness ==
    /\ FirstOkPoll
    /\ Len(hist) = 3
    /\ LastPoll.shares = 0
    /\ pc = "sleep"

(***************************************************************************)
(* C4: a failed poll cycle leaves prev_shares and restart_count as they    *)
(* were, so once a cycle is over prev_shares holds the count of the last   *)
(* successful poll: after success(100), failures, success(100) a restart   *)
(* is attempted in the last cycle, and after success(100), failures,       *)
(* success(101) none is.                                                   *)
(***************************************************************************)
\* A step of a cycle whose poll failed.
FailedPollStep ==
    \/ pc = "get" /\ hist' # hist /\ hist'[Len(hist')].res = "RequestException"
    \/ FailedPoll /\ pc # "get"

\* success(BaseShares), one or more failures, then a success.
RecoveredRun ==
    /\ Len(hist) >= 3
    /\ hist[1] = [res |-> "ok", shares |-> BaseShares]
    /\ \A i \in 2..(Len(hist) - 1) : hist[i].res = "RequestException"
    /\ LastPoll.res = "ok"

C4_RecordedAfterCycle ==
    /\ CycleOver =>
          prev_shares = IF OkPolls(hist) = <<>>
                        THEN None
                        ELSE Some(OkPolls(hist)[Len(OkPolls(hist))].shares)
    /\ (RecoveredRun /\ CycleOver /\ LastPoll.shares = BaseShares) =>
          restart_posts = 1 /\ CountIn(out, "post:restart") = 1
    /\ (RecoveredRun /\ LastPoll.shares = BaseShares + 1) => restart_posts = 0

C4_FailedPollFrame ==
    /\ []C4_RecordedAfterCycle
    /\ [][FailedPollStep => UNCHANGED <<prev_shares, restart_count>>]_vars

C4_Witness ==
    /\ RecoveredRun
    /\ Len(hist) = 4
    /\ LastPoll.shares = BaseShares
    /\ CountIn(out, "post:restart") = 1
    /\ prev_shares = Some(BaseShares)
    /\ pc = "sleep"

(***************************************************************************)
(* C5: restart_count starts at 0 and grows by exactly 1 when, and only     *)
(* when, a restart POST is answered with status 200; any other status or   *)
(* a network error leaves it, and it never decreases.  So it always equals *)
(* the number of restart POSTs answered with 200.                          *)
(***************************************************************************)
C5_CountsOnly200 ==
    /\ restart_count = restart_200
    /\ restart_count <= restart_posts
    /\ (hist = <<[res |-> "ok", shares |-> BaseShares],
                 [res |-> "ok", shares |-> BaseShares]>>
        /\ CountIn(out, "log:restart_ok") = 1) => restart_count = 1

C5_Witness ==
    /\ restart_posts = 3
    /\ restart_count = 1
    /\ CountIn(out, "log:restart_failed") = 1
    /\ pc = "sleep"

(***************************************************************************)
(* C6: after a failed status poll the loop waits the recovery interval of  *)
(* 10, whether the configured interval is shorter or longer, and then      *)
(* polls again.                                                            *)
(***************************************************************************)
C6_RecoveryWaitAfterFailure ==
    FailedPoll =>
        /\ pc \in {"alert_unreachable", "sleep", "get"}
        /\ CycleOver => seconds = RecoveryWait /\ remaining <= RecoveryWait
        /\ pc = "get" => remaining = 0

C6_Witness ==
    /\ FailedPoll
    /\ pc = "get"
    /\ interval = LongInterval
    /\ seconds = RecoveryWait
    /\ Len(hist) = 2

(***************************************************************************)
(* C7: after a successful poll cycle, with or without a stall and whatever *)
(* the restart answered, the loop waits exactly the configured interval;   *)
(* wait_after_restart is never true and the wait of 60 is never taken.     *)
(***************************************************************************)
C7_ConfiguredWaitAfterSuccess ==
    /\ ~wait_after_restart
    /\ (CycleOver /\ LastPoll.res = "ok") => seconds = interval
    /\ seconds # RestartWait

C7_Witness ==
    /\ pc = "sleep"
    /\ CountIn(out, "log:restart_ok") = 1
    /\ seconds = interval
    /\ remaining = interval

(***************************************************************************)
(* C8: the loop has no terminal state: after every outcome of a cycle,     *)
(* a status GET answered with any response body included, the loop is at   *)
(* a call of the cycle or at its wait, from where it polls again.          *)
(***************************************************************************)
LoopPositions ==
    {"get", "alert_stall", "restart_post", "alert_restart_ok", "alert_restart_failed",
     "alert_restart_error", "alert_unreachable", "sleep"}

C8_NoTerminalState == pc \in LoopPositions

(***************************************************************************)
(* C9: a webhook POST, delivered or not, never raises into the loop and    *)
(* never changes what the loop does next: after the stall alert the        *)
(* restart POST follows, after the alert of a restart result the cycle     *)
(* ends with the recorded count refreshed and the configured wait, after   *)
(* the unreachable alert the recovery wait follows; the restart counter    *)
(* is untouched by all three.                                              *)
(***************************************************************************)
AfterWebhook ==
    /\ pc = "alert_stall" =>
          /\ pc' = "restart_post"
          /\ UNCHANGED <<prev_shares, restart_count, restart_posts, hist>>
    /\ pc \in {"alert_restart_ok", "alert_restart_failed", "alert_restart_error"} =>
          /\ pc' = "sleep"
          /\ seconds' = interval
          /\ prev_shares' = Some(shares)
          /\ UNCHANGED <<restart_count, restart_posts, hist>>
    /\ pc = "alert_unreachable" =>
          /\ pc' = "sleep"
          /\ seconds' = RecoveryWait
          /\ UNCHANGED <<prev_shares, restart_count, restart_posts, hist>>

C9_WebhookFailureIgnored == [][AfterWebhook]_vars

C9_Witness ==
    /\ pc = "sleep"
    /\ out = <<"log:status", "log:stall", "hook:stall", "print:alert_failed",
               "post:restart", "log:restart_ok", "hook:restart_ok", "print:alert_failed">>
    /\ restart_count = 1
    /\ prev_shares = Some(BaseShares)

(***************************************************************************)
(* C10: a stall cycle logs the status line, logs the stall, notifies the   *)
(* stall, issues the restart POST, logs its result and notifies it, in     *)
(* this order, the two notifications only with a webhook configured; with  *)
(* none configured no webhook POST is ever made.                           *)
(***************************************************************************)
StallCycleOutputs(hook) ==
    {IF hook
     THEN <<"log:status", "log:stall", "hook:stall", "post:restart",
            "log:restart_" \o b, "hook:restart_" \o b>>
     ELSE <<"log:status", "log:stall", "post:restart", "log:restart_" \o b>> :
         b \in {"ok", "failed", "error"}}

C10_StallCycleOrder ==
    /\ (UnchangedPoll /\ CycleOver) => Visible(out) \in StallCycleOutputs(discord_url # "")
    /\ discord_url = "" =>
          hook_posts = 0 /\ \A i \in DOMAIN out : out[i] \notin {"hook:stall",
              "hook:restart_ok", "hook:restart_failed", "hook:restart_error",
              "hook:unreachable", "print:alert_failed"}

C10_Witness ==
    /\ UnchangedPoll
    /\ pc = "sleep"
    /\ discord_url # ""
    /\ Visible(out) = <<"log:status", "log:stall", "hook:stall", "post:restart",
                        "log:restart_failed", "hook:restart_failed">>
    /\ hook_posts = 2

(***************************************************************************)
(* C18: a device that reports the same share count on k consecutive        *)
(* successful polls, k >= 2, gets a restart attempt on each of the polls   *)
(* 2..k, whatever the earlier restarts answered: after k such polls k - 1  *)
(* restart POSTs were issued, the last of them in the cycle of poll k,     *)
(* each one configured interval after the cycle before.                    *)
(***************************************************************************)
\* Every poll so far succeeded and reported the same count.
SameCountRun ==
    /\ Polled
    /\ \A i \in DOMAIN hist : hist[i].res = "ok" /\ hist[i].shares = hist[1].shares

C18_RestartOnEveryRepeat ==
    (SameCountRun /\ CycleOver) =>
        /\ restart_posts = Len(hist) - 1
        /\ Len(hist) >= 2 => CountIn(out, "post:restart") = 1
        /\ seconds = interval

C18_Witness ==
    /\ SameCountRun
    /\ Len(hist) = 4
    /\ hist[1].shares = 0
    /\ restart_posts = 3
    /\ restart_count = 2
    /\ pc = "get"

(***************************************************************************)
(* C19: a failed status poll cycle logs exactly one unreachable line,      *)
(* sends exactly one unreachable notification when a webhook is            *)
(* configured (each failed cycle its own) and issues no restart POST;      *)
(* restart POSTs come only from cycles whose poll succeeded, so they       *)
(* number at most the successful polls minus one.                          *)
(***************************************************************************)
\* The polls the loop treated as failed: a network error, an error status
\* or a body that is not JSON.
FailedPolls == SelectSeq(hist, LAMBDA e : e.res = "RequestException")

C19_FailedCycleOutput ==
    /\ (FailedPoll /\ CycleOver) =>
          Visible(out) = IF discord_url # ""
                         THEN <<"log:unreachable", "hook:unreachable">>
                         ELSE <<"log:unreachable">>
    /\ FailedPoll => CountIn(out, "post:restart") = 0
    /\ (CycleOver /\ discord_url # "") =>
          hook_posts = Len(FailedPolls) + 2 * restart_posts
    /\ restart_posts <= (IF OkPolls(hist) = <<>> THEN 0 ELSE Len(OkPolls(hist)) - 1)

C19_Witness ==
    /\ FailedPoll
    /\ Len(FailedPolls) = 2
    /\ hist[Len(hist) - 1].res = "RequestException"
    /\ hook_posts = 4
    /\ restart_posts = 1
    /\ pc = "sleep"

(***************************************************************************)
(* C17: a line log_output appends to the log file holds no ANSI escape     *)
(* sequence, whatever the line given (device-supplied text included),      *)
(* while the line on the console is the one given.                         *)
(***************************************************************************)
\* An ANSI control sequence starts at i: ESC, "[", parameter bytes, a final byte.
IsFinal(c) == c \in {"m", "J"}
AnsiSequenceAt(s, i) ==
    /\ i + 1 <= Len(s) /\ s[i] = "ESC" /\ s[i + 1] = "["
    /\ LET j == ParamsEnd(s, i + 2) IN j <= Len(s) /\ IsFinal(s[j])
HasAnsiSequence(s) == \E i \in DOMAIN s : AnsiSequenceAt(s, i)

C17_FileLinesPlain ==
    /\ \A k \in DOMAIN file_lines : ~HasAnsiSequence(file_lines[k])
    /\ \A k \in DOMAIN console : console[k] = line

(***************************************************************************)
(* C11: the device loops share no mutable state.  Under every interleaving *)
(* of the threads each device's recorded share count, restart counter and  *)
(* restart POSTs are those of a loop run alone on that device's own        *)
(* answers: the recorded count is the count of its own last successful     *)
(* poll, the counter counts its own restarts answered 200, and it was sent *)
(* one restart POST per own successful poll that repeated its own count.   *)
(***************************************************************************)
\* The polls of h that repeat the count of the successful poll before them.
RepeatPolls(h) ==
    {i \in DOMAIN h :
        /\ h[i].res = "ok"
        /\ LET before == OkPolls(SubSeq(h, 1, i - 1)) IN
           before # <<>> /\ before[Len(before)].shares = h[i].shares}

\* The locals l are what a loop run alone has after the polls l.hist.
AsIfAlone(l) ==
    /\ l.restart_count = l.restart_200
    /\ l.hist = <<>> => l.prev_shares = None /\ l.restart_posts = 0
    /\ (l.hist # <<>> /\ l.pc \in {"sleep", "get"}) =>
          /\ l.prev_shares = IF OkPolls(l.hist) = <<>>
                             THEN None
                             ELSE Some(OkPolls(l.hist)[Len(OkPolls(l.hist))].shares)
          /\ l.restart_posts = Cardinality(RepeatPolls(l.hist))

C11_NoSharedState == \A d \in Devices : AsIfAlone(View(d))

C11_Witness ==
    \E a, b \in Devices :
        /\ a # b
        /\ View(a).hist = <<[res |-> "ok", shares |-> BaseShares],
                            [res |-> "ok", shares |-> BaseShares]>>
        /\ View(a).restart_posts = 1
        /\ View(a).restart_count = 1
        /\ View(a).pc = "sleep"
        /\ View(b).hist = <<[res |-> "ok", shares |-> BaseShares]>>
        /\ View(b).restart_posts = 0
        /\ View(b).pc = "sleep"
        /\ View(b).remaining < View(b).seconds

(***************************************************************************)
(* Vocabulary of the log file properties.                                  *)
(***************************************************************************)
Embeds(text, part) ==
    \E i \in 1..(Len(text) - Len(part) + 1) : SubSeq(text, i, i + Len(part) - 1) = part
\* The file is one resolve_logfile named in the log directory.
InLogDir(f) == log_arg.leaf # "" /\ f.dir = DirOf(log_arg)
\* The day a log file name carries.
DayOfName(base) == CHOOSE n \in DOMAIN DD : Embeds(base, Strftime(n))

(***************************************************************************)
(* C13: when logging to a directory, every line is appended to the file    *)
(* whose name carries the day on which the line is written, also after     *)
(* midnight has passed while the loop runs.                                *)
(***************************************************************************)
C13_LinesInFileOfTheirDay ==
    \A e \in appended : InLogDir(e.file) => Embeds(e.file.base, Strftime(e.day))

(***************************************************************************)
(* C14: when logging to a directory, a line written once a successful poll *)
(* has reported a hostname goes to a file named after that hostname, and a *)
(* line written before goes to the file named after the IP.                *)
(***************************************************************************)
C14_FileNamedAfterHostname ==
    \A e \in appended :
        InLogDir(e.file) =>
            IF e.hostname # <<>>
            THEN StartsWith(e.file.base, e.hostname \o <<"-">>)
            ELSE Embeds(e.file.base, Replace(LogIp, ".", "_") \o <<"-">>)

(***************************************************************************)
(* C15: after the start of a device loop with a retention window of N      *)
(* days, no log file of the device dated more than N days back is left     *)
(* and every one dated within the window still is, as .log or as .log.gz.  *)
(***************************************************************************)
C15_RetentionAtStartup ==
    (lg_pc \in {"loop", "restart"} /\ max_days # 0 /\ logfile # NoFile) =>
        \A f \in found :
            IF DayOfName(f.base) < StartDay - max_days
            THEN f \notin files
            ELSE f \in files \/ [f EXCEPT !.base = @ \o <<".", "gz">>] \in files

(***************************************************************************)
(* Vocabulary of the run_from_config properties.                           *)
(***************************************************************************)
\* The section is a device section that defines an ip.
DefinesDevice(section) ==
    /\ section.name[1] = "bitaxe:"
    /\ "ip" \in DOMAIN section.opts
    /\ section.opts["ip"] # <<>>
\* The section is a device section without an ip value.
Malformed(section) == section.name[1] = "bitaxe:" /\ ~DefinesDevice(section)
\* The ips of the device sections among the first n, in file order.
DeviceIps(n) ==
    LET valid == SelectSeq(SubSeq(config, 1, n), DefinesDevice)
    IN [i \in DOMAIN valid |-> valid[i].opts["ip"]]
\* The sections the thread-starting loop has been through.
SectionsDone ==
    IF cf_pc = "threads" THEN section_i - 1
    ELSE IF cf_pc \in {"sleep", "stopped"} THEN Len(config)
    ELSE 0

(***************************************************************************)
(* C12: in multi-device mode no two loops monitor the same device and no   *)
(* two loops have resolved to the same log file path.                      *)
(***************************************************************************)
C12_OneLoopPerDeviceAndFile ==
    \A i, j \in DOMAIN loops :
        i # j =>
            /\ loops[i].ip # loops[j].ip
            /\ (loops[i].logfile # NoFile => loops[i].logfile # loops[j].logfile)

(***************************************************************************)
(* C16: run_from_config never aborts on a device section without an ip;    *)
(* the loops started are those of the sections named bitaxe:... that       *)
(* define an ip, one per section and in file order, whatever other         *)
(* sections the file holds.                                                *)
(***************************************************************************)
C16_LoopsForValidSections ==
    /\ cf_pc # "aborted"
    /\ [i \in DOMAIN loops |-> loops[i].ip] = DeviceIps(SectionsDone)

C16_Witness ==
    /\ cf_pc = "sleep"
    /\ Len(config) = 3
    /\ DefinesDevice(config[1]) /\ Malformed(config[2]) /\ DefinesDevice(config[3])
    /\ Len(loops) = 2
    /\ loops[1].ip # loops[2].ip

====
